---- MODULE Spec2Model ----
(***************************************************************************)
(* Incremental build pipeline of adbook: the modification-time cache       *)
(* (src/build/cache.rs), the concurrent walker (src/book/walk.rs), the     *)
(* per-file builder (src/build/visit.rs) and build_book with the site      *)
(* assembly (src/build.rs), run as a sequence of builds over a file system *)
(* that the user changes between builds.                                   *)
(***************************************************************************)
EXTENDS Integers, Sequences, FiniteSets, TLC

\* ------------------------------------------------------------------ bounds

\* modification times are 1..MaxTime (0: the file does not exist)
MaxTime == 2
\* source text versions are 1..MaxContent
MaxContent == 2
\* builds started in one behaviour
MaxBuilds == 3
\* changes the user makes to the file system in one behaviour
MaxChanges == 2
\* failures of the file system and of the conversion engine in one behaviour
MaxFaults == 2
\* entries declared in one directory description
MaxItems == 3
\* calls of the loader that are active at once
MaxDepth == 4
\* lines of one document text
MaxLines == 3
\* attributes of one "-a" option of book.ron
MaxAttrOpts == 2

\* ------------------------------------------------------------------- paths

\* A path relative to its root: directory, file stem, extension.
Path(dir, stem, ext) == [dir |-> dir, stem |-> stem, ext |-> ext]

\* Path::with_extension
with_extension(p, ext) == [p EXCEPT !.ext = ext]

S == Path("", "s", "adoc")
A == Path("", "a", "adoc")
DS == Path("d", "s", "adoc")
X == Path("", "x", "png")
\* a file in the directory img of the source root, and that directory
IX == Path("img", "i", "png")
ImgDir == Path("img", "", "")
\* an include that is no relative path
AbsInclude == Path("/abs", "", "")

\* every file that can be under the source root, in read_dir order
SrcOrder == <<S, A, DS, X, IX, Path("theme", "index", "css")>>
SrcPaths == {SrcOrder[i] : i \in 1..Len(SrcOrder)}
\* the documents: they exist whenever a build runs
DocPaths == {S, A, DS}

\* two files of the bundled theme; the first is also a file of the source
\* root, where the user keeps an own version of it to include
ThemeFile == Path("theme", "index", "css")
ThemeJs == Path("theme", "prism", "js")
ThemeItems == {ThemeFile, ThemeJs}
ThemeDir == Path("theme", "", "")
\* what the user can have put into the site directory: a file of a repository
\* and an entry that is neither a file nor a directory (a fifo, a dangling link)
GitHead == Path(".git", "HEAD", "")
Fifo == Path("", "fifo", "")
SitePaths == {with_extension(p, "html") : p \in DocPaths} \cup {X, IX, ThemeFile, ThemeJs, GitHead, Fifo}
SiteDirs == {"d", "theme", "img", ".git"}
\* the names of top-level entries that start with '.'
DotNames == {".git"}

\* ------------------------------------------------------------------- texts

NoPath == Path("", "", "")
NoFile == [kind |-> "none", of |-> NoPath, c |-> 0]
\* the conversion engine: a pure function of the source file and its text
Render(p, c) == [kind |-> "html", of |-> p, c |-> c]
\* the bytes of a source file that is copied as it is
Raw(p, c) == [kind |-> "raw", of |-> p, c |-> c]
ThemeBytes == [kind |-> "theme", of |-> ThemeFile, c |-> 0]
\* the bytes of THEME_ITEMS for a path of the theme
ThemeBytesOf(p) == [ThemeBytes EXCEPT !.of = p]
\* what the user put into the site directory: the bytes of a file, or an
\* entry that is neither a file nor a directory
UserBytes(p) == [kind |-> IF p = Fifo THEN "odd" ELSE "user", of |-> p, c |-> 0]

\* ------------------------------------------------------------------- books

File(p) == [kind |-> "File", path |-> p]
Dir(ix) == [kind |-> "Dir", index |-> ix]
Index(summary, items) == [summary |-> summary, items |-> items]

BookFlat ==
    [converts |-> <<>>, includes |-> <<AbsInclude, X, ImgDir>>, use_default_theme |-> FALSE,
     index |-> Index(S, <<File(A)>>)]
BookSub ==
    [converts |-> <<>>, includes |-> <<ThemeDir>>, use_default_theme |-> TRUE,
     index |-> Index(S, <<Dir(Index(DS, <<>>))>>)]
BookDup ==
    [converts |-> <<A>>, includes |-> <<IX>>, use_default_theme |-> FALSE,
     index |-> Index(S, <<File(A)>>)]
Books == {BookFlat, BookSub, BookDup}

\* list_files_rec: the summary, then the items in order, directories in depth
RECURSIVE list_files_rec(_)
RECURSIVE list_items_rec(_)
list_items_rec(items) ==
    IF items = <<>> THEN <<>>
    ELSE LET item == Head(items)
             here == IF item.kind = "File" THEN <<item.path>>
                     ELSE list_files_rec(item.index)
         IN  here \o list_items_rec(Tail(items))
list_files_rec(ix) == <<ix.summary>> \o list_items_rec(ix.items)

\* list_src_files: the convert-only files, then the tree
list_src_files(b) == b.converts \o list_files_rec(b.index)

\* ------------------------------------------------------------------- cache

CacheEntry(p, t) == [path |-> p, last_modified |-> t]

None == [some |-> FALSE, entries |-> <<>>]
Some(entries) == [some |-> TRUE, entries |-> entries]

\* CacheData::create_new_cache: one entry per file under the source root
RECURSIVE create_new_cache_from(_, _)
create_new_cache_from(mt, i) ==
    IF i > Len(SrcOrder) THEN <<>>
    ELSE (IF mt[SrcOrder[i]] # 0
          THEN <<CacheEntry(SrcOrder[i], mt[SrcOrder[i]])>> ELSE <<>>)
         \o create_new_cache_from(mt, i + 1)
create_new_cache(mt) == create_new_cache_from(mt, 1)

\* CacheData::find_cache: the first entry of the path
RECURSIVE find_cache(_, _)
find_cache(entries, p) ==
    IF entries = <<>> THEN None
    ELSE IF Head(entries).path = p THEN Some(<<Head(entries)>>)
    ELSE find_cache(Tail(entries), p)

\* a bug: only a file with an older recorded time counts as changed
StaleTimesOlder(last, current) == last.last_modified > current.last_modified

\* the comparison of need_build's last line
StaleTimes(last, current) == last.last_modified # current.last_modified

\* CacheDiff::need_build (the path is in the new snapshot, or it panics)
need_build(diff, p) ==
    LET current == find_cache(diff.new, p)
    IN  IF ~diff.old.some THEN TRUE
        ELSE LET last == find_cache(diff.old.entries, p)
             IN  IF ~last.some THEN TRUE
                 ELSE StaleTimes(last.entries[1], current.entries[1])

\* a bug: the test for an empty index is inverted
create_diff_inverted(loaded, mt) ==
    [old |-> IF loaded # <<>> THEN None ELSE Some(loaded),
     new |-> create_new_cache(mt)]

\* CacheIndex::create_diff: an index without entries is no previous snapshot
create_diff(loaded, mt) ==
    [old |-> IF loaded = <<>> THEN None ELSE Some(loaded),
     new |-> create_new_cache(mt)]

NoDiff == [old |-> None, new |-> <<>>]

\* a bug: the previous snapshot is handed on instead of the new one
into_old_cache_data(diff) == IF diff.old.some THEN diff.old.entries ELSE diff.new

\* CacheDiff::into_new_cache_data
into_new_cache_data(diff) == diff.new

\* ------------------------------------------------------------ directories

\* a directory of rendered files: the files in it and its sub-directories
EmptyTree(paths) == [files |-> [p \in paths |-> NoFile], dirs |-> {}]

BuildOutput(string, src_file) == [ok |-> TRUE, string |-> string, src_file |-> src_file]
BuildError(src_file) == [ok |-> FALSE, string |-> NoFile, src_file |-> src_file]

\* the kinds of failure of one write_html_outputs call
WriteFailures == {"none", "mkdir", "write"}

\* a bug: the artifact is written under its file name alone, the directory
\* of the source file dropped
WriteFileFlat(tree, dst, string) ==
    [files |-> [tree.files EXCEPT ![[dst EXCEPT !.dir = ""]] = string],
     dirs |-> tree.dirs]

\* fs::write(&dst_path, &output.string)
WriteFile(tree, dst, string) ==
    [files |-> [tree.files EXCEPT ![dst] = string],
     dirs |-> IF dst.dir = "" THEN tree.dirs ELSE tree.dirs \cup {dst.dir}]

\* write_html_outputs from output i on; the file system fails at output j with
\* `kind`: "mkdir" (create_dir_all fails: recorded, the output skipped) or
\* "write" (fs::write fails: the error is returned)
RECURSIVE write_html_outputs(_, _, _, _, _)
write_html_outputs(tree, outs, i, j, kind) ==
    IF i > Len(outs) THEN [tree |-> tree, errors |-> <<>>, ok |-> TRUE]
    ELSE LET dst == with_extension(outs[i].src_file, "html")
             missing == dst.dir # "" /\ dst.dir \notin tree.dirs
         IN  IF i = j /\ kind = "mkdir" /\ missing
             THEN LET r == write_html_outputs(tree, outs, i + 1, j, kind)
                  IN  [r EXCEPT !.errors = <<[step |-> "mkdir", path |-> dst]>> \o @]
             ELSE IF i = j /\ kind = "write"
             THEN [tree |-> [tree EXCEPT !.dirs = IF dst.dir = "" THEN @ ELSE @ \cup {dst.dir}],
                   errors |-> <<>>, ok |-> FALSE]
             ELSE write_html_outputs(WriteFile(tree, dst, outs[i].string), outs, i + 1, j, kind)

\* the top-level entry of the directory a path lies in (or is)
TopName(p) == IF p.dir = "" THEN p.stem ELSE p.dir

\* clear_directory_items with build_book's filter: an entry whose name starts
\* with '.' is kept; of the others a file is removed, a directory is removed
\* with all in it, and an entry that is neither is skipped
clear_directory_items(tree) ==
    [files |-> [p \in DOMAIN tree.files |->
                   IF TopName(p) \in DotNames \/ (p.dir = "" /\ tree.files[p].kind = "odd")
                   THEN tree.files[p] ELSE NoFile],
     dirs |-> tree.dirs \cap DotNames]

\* Path::is_relative, and exists / is_file of a path under the source root
\* (a directory exists when a file is in it)
is_relative(p) == p # AbsInclude
SrcIsFile(mt, p) == p \in DOMAIN mt /\ mt[p] # 0
SrcIsDir(mt, p) == p.stem = "" /\ \E q \in DOMAIN mt : q.dir = p.dir /\ mt[q] # 0
SrcExists(mt, p) == SrcIsFile(mt, p) \/ SrcIsDir(mt, p)

\* fs::copy(&src_path, &dst_path): the destination's directory is not created
CopyFile(tree, dst, bytes) == [tree EXCEPT !.files[dst] = bytes]
CanCopyFile(tree, dst) == dst.dir = "" \/ dst.dir \in tree.dirs

\* create_dir_all(&dst_path), then utils::copy_items_rec: every file of the
\* source directory, at the same relative path
copy_items_rec(tree, mt, ct, dir) ==
    [files |-> [p \in DOMAIN tree.files |->
                   IF p \in DOMAIN mt /\ p.dir = dir.dir /\ mt[p] # 0
                   THEN Raw(p, ct[p]) ELSE tree.files[p]],
     dirs |-> tree.dirs \cup {dir.dir}]

\* a bug: the theme files are written over what is there
copy_default_theme_over(tree) ==
    [files |-> [p \in DOMAIN tree.files |->
                   IF p \in ThemeItems THEN ThemeBytesOf(p) ELSE tree.files[p]],
     dirs |-> tree.dirs \cup {"theme"}]

\* copy_default_theme: gen_dir and gen_file write only what does not exist
copy_default_theme(tree) ==
    [files |-> [p \in DOMAIN tree.files |->
                   IF p \in ThemeItems /\ tree.files[p] = NoFile
                   THEN ThemeBytesOf(p) ELSE tree.files[p]],
     dirs |-> tree.dirs \cup {"theme"}]

\* the index file as update_cache_index writes it: the new snapshot alone
SavedIndex(old_entries, new_cache) == [kind |-> "data", entries |-> new_cache]

\* the results the walker hands on when no file needs a build
NoFileToBuild(b, diff) == <<>>

\* -------------------------------------------------------------- the loader

\* the entries of an index.ron and the description itself
IndexRonFile(rel) == [kind |-> "File", rel |-> rel]
IndexRonDir(rel) == [kind |-> "Dir", rel |-> rel]
IndexRon(summary, items) == [summary |-> summary, items |-> items]

INDEX_RON == "index.ron"

\* the paths under the source root the loader can look at, as components
LoadPaths ==
    {<<"s">>, <<"a">>, <<"b">>, <<"c">>, <<"d">>,
     <<"d", INDEX_RON>>, <<"d", "s">>, <<"d", "a">>}

\* what is at a path: "none", "dir", or a file ("file"; an index.ron can also
\* be a file that cannot be read, or one that is no RON)
KindOf(fs, path) == IF path \in DOMAIN fs THEN fs[path] ELSE "none"
\* Path::join, Path::exists, Path::is_file
join(dir, rel) == Append(dir, rel)
exists(fs, path) == KindOf(fs, path) # "none"
is_file(fs, path) == KindOf(fs, path) \in {"file", "unreadable", "unparsable"}

\* IndexLoadError
IndexLoadError(err, path, dir, sub) == [err |-> err, path |-> path, dir |-> dir, sub |-> sub]
FailedToLocateItem(rel, dir) == IndexLoadError("FailedToLocateItem", <<rel>>, dir, <<>>)
FailedToLocateSummary(rel, dir) == IndexLoadError("FailedToLocateSummary", <<rel>>, dir, <<>>)
FoundDirectoryWithoutIndexRon(path) == IndexLoadError("FoundDirectoryWithoutIndexRon", path, <<>>, <<>>)
FailedToReadIndexRon(path) == IndexLoadError("FailedToReadIndexRon", path, <<>>, <<>>)
FailedToParseIndexRon(path) == IndexLoadError("FailedToParseIndexRon", path, <<>>, <<>>)
FoundErrorsInSubIndex(errs) == IndexLoadError("FoundErrorsInSubIndex", <<>>, <<>>, errs)

\* one round of the loop over the items: the item pushed, or the error pushed
\* and `continue`
Pushed(item, errs) == [items |-> <<item>>, errors |-> errs]
Skipped(err) == [items |-> <<>>, errors |-> <<err>>]

\* a bug: a sub index that failed to load is dropped without an error
SubIndexDropped(err) == [items |-> <<>>, errors |-> <<>>]

\* Err(err) => { errors.push(err); continue; }
SubIndexFailed(err) == Skipped(err)

RECURSIVE from_index_ron_recursive(_, _, _, _)

\* the body of `for item in &ix_ron.items`; rons gives the text of the
\* index.ron of a directory
LoadItem(item, ix_ron_dir, fs, rons) ==
    LET path == join(ix_ron_dir, item.rel)
    IN  IF ~exists(fs, path) THEN Skipped(FailedToLocateItem(item.rel, ix_ron_dir))
        ELSE IF item.kind = "File" THEN Pushed(File(path), <<>>)
        ELSE LET file == join(path, INDEX_RON)
             IN  IF ~is_file(fs, file) THEN Skipped(FoundDirectoryWithoutIndexRon(path))
                 ELSE IF fs[file] = "unreadable" THEN Skipped(FailedToReadIndexRon(path))
                 ELSE IF fs[file] = "unparsable" THEN Skipped(FailedToParseIndexRon(path))
                 ELSE LET r == from_index_ron_recursive(rons[path], path, fs, rons)
                      IN  IF ~r.ok THEN SubIndexFailed(r.err)
                          ELSE Pushed(Dir(r.index),
                                      IF r.errors # <<>>
                                      THEN <<FoundErrorsInSubIndex(r.errors)>> ELSE <<>>)

\* a bug: the loop ends at the first item that is not loaded (break)
RECURSIVE load_items_until_invalid(_, _, _, _)
load_items_until_invalid(items, ix_ron_dir, fs, rons) ==
    IF items = <<>> THEN [items |-> <<>>, errors |-> <<>>]
    ELSE LET r == LoadItem(Head(items), ix_ron_dir, fs, rons)
         IN  IF r.items = <<>> THEN r
             ELSE LET rest == load_items_until_invalid(Tail(items), ix_ron_dir, fs, rons)
                  IN  [items |-> r.items \o rest.items, errors |-> r.errors \o rest.errors]

\* the loop over the items, in the order of their declaration
RECURSIVE load_items(_, _, _, _)
load_items(items, ix_ron_dir, fs, rons) ==
    IF items = <<>> THEN [items |-> <<>>, errors |-> <<>>]
    ELSE LET r == LoadItem(Head(items), ix_ron_dir, fs, rons)
             rest == load_items(Tail(items), ix_ron_dir, fs, rons)
         IN  [items |-> r.items \o rest.items, errors |-> r.errors \o rest.errors]

NoIndex == Index(<<>>, <<>>)
NoError == IndexLoadError("", <<>>, <<>>, <<>>)

\* Index::from_index_ron_recursive: Err without the summary file, else the
\* index of the items that loaded and the errors of the others
from_index_ron_recursive(ix_ron, ix_ron_dir, fs, rons) ==
    LET file == join(ix_ron_dir, ix_ron.summary)
    IN  IF ~is_file(fs, file)
        THEN [ok |-> FALSE, index |-> NoIndex, errors |-> <<>>,
              err |-> FailedToLocateSummary(ix_ron.summary, ix_ron_dir)]
        ELSE LET r == load_items(ix_ron.items, ix_ron_dir, fs, rons)
             IN  [ok |-> TRUE, index |-> Index(file, r.items), errors |-> r.errors,
                  err |-> NoError]

\* ------------------------------------------------------- document metadata
\* build/convert/adoc.rs.  A string is the sequence of its characters; a
\* placeholder of book.ron ("{base_url}") is one character of it.  An Option
\* is a sequence of at most one element.

\* str::trim: without the white space at both ends
trim(s) ==
    LET ix == {i \in 1..Len(s) : s[i] # " "}
    IN  IF ix = {} THEN <<>>
        ELSE SubSeq(s, CHOOSE i \in ix : \A j \in ix : i <= j,
                       CHOOSE i \in ix : \A j \in ix : j <= i)
starts_with(s, pat) == Len(s) >= Len(pat) /\ SubSeq(s, 1, Len(pat)) = pat
ends_with(s, pat) == Len(s) >= Len(pat) /\ SubSeq(s, Len(s) - Len(pat) + 1, Len(s)) = pat

\* AdocRunContext of a book whose book.ron has the options opts
AdocRunContext(opts) ==
    [src_dir |-> <<"s">>, dst_dir |-> <<"t">>, opts |-> opts, base_url |-> <<"u">>]

RECURSIVE replace_placeholder_strings(_, _)
\* each placeholder gives way to the string of the context
replace_placeholder_strings(acx, arg) ==
    IF arg = <<>> THEN <<>>
    ELSE (CASE Head(arg) = "{base_url}" -> acx.base_url
            [] Head(arg) = "{src_dir}" -> acx.src_dir
            [] Head(arg) = "{dst_dir}" -> acx.dst_dir
            [] OTHER -> <<Head(arg)>>)
         \o replace_placeholder_strings(acx, Tail(arg))

\* AdocAttr
deny(name) == [kind |-> "Deny", name |-> name, value |-> <<>>]
allow(name, value) == [kind |-> "Allow", name |-> name, value |-> value]
from_name(name) ==
    IF starts_with(name, <<"!">>) THEN deny(Tail(name)) ELSE allow(name, <<>>)

AdocMetadata(title, attrs, base) == [title |-> title, attrs |-> attrs, base |-> base]

RECURSIVE find_attr_base_first(_, _)
\* the attribute of the fallback wins over the one of self
find_attr_base_first(self, name) ==
    LET own == SelectSeq(self.attrs, LAMBDA a : a.name = name)
        below == IF self.base # <<>> THEN find_attr_base_first(self.base[1], name) ELSE <<>>
    IN  IF below # <<>> THEN below
        ELSE IF own # <<>> THEN <<own[1]>> ELSE <<>>

RECURSIVE find_attr(_, _)
\* AdocMetadata::find_attr: the first attribute of self with the name, else
\* what the fallback finds
find_attr(self, name) ==
    LET own == SelectSeq(self.attrs, LAMBDA a : a.name = name)
    IN  IF own # <<>> THEN <<own[1]>>
        ELSE IF self.base # <<>> THEN find_attr(self.base[1], name)
        ELSE <<>>

is_line_to_skip(ln) == trim(ln) = <<>> \/ starts_with(trim(ln), <<"/", "/">>)

RECURSIVE extract_attrs(_, _)
\* the loop of extract over the lines left: it ends at a line with no colon,
\* passes over a line whose first colon is not its first character or that
\* has one colon only, and takes ":name: value" and ":!name:"
extract_attrs(lines, acx) ==
    IF lines = <<>> THEN <<>>
    ELSE LET line == Head(lines)
             colons == {i \in 1..Len(line) : line[i] = ":"}
         IN  IF colons = {} THEN <<>>
             ELSE IF 1 \notin colons THEN extract_attrs(Tail(lines), acx)
             ELSE IF Cardinality(colons) = 1 THEN extract_attrs(Tail(lines), acx)
             ELSE LET pos == CHOOSE i \in colons \ {1} : \A j \in colons \ {1} : i <= j
                      name == trim(SubSeq(line, 2, pos - 1))
                      value == trim(SubSeq(line, pos + 1, Len(line)))
                  IN  <<IF starts_with(name, <<"!">>) THEN deny(Tail(name))
                        ELSE allow(name, replace_placeholder_strings(acx, value))>>
                      \o extract_attrs(Tail(lines), acx)

\* AdocMetadata::extract of the lines of a text
extract(text, acx) ==
    LET lines == SelectSeq(text, LAMBDA ln : ~is_line_to_skip(ln))
        titled == lines # <<>> /\ starts_with(Head(lines), <<"=", " ">>)
    IN  AdocMetadata(IF titled THEN <<trim(SubSeq(Head(lines), 3, Len(Head(lines))))>>
                     ELSE <<>>,
                     extract_attrs(IF titled THEN Tail(lines) ELSE lines, acx),
                     <<>>)

\* one "-a" option: attr | !attr | name=value | name@=value | name=value@
CmdAttr(opt, acx) ==
    LET eqs == {i \in 1..Len(opt) : opt[i] = "="}
        eq_pos == IF eqs = {} THEN 0 ELSE (CHOOSE i \in eqs : \A j \in eqs : i <= j) - 1
    IN  IF eq_pos = 0 THEN from_name(opt)
        ELSE LET name == SubSeq(opt, 1, eq_pos)
                 value == SubSeq(opt, eq_pos + 2, Len(opt))
             IN  allow(IF ends_with(name, <<"@">>) THEN SubSeq(name, 1, Len(name) - 1)
                       ELSE name,
                       replace_placeholder_strings(acx,
                           IF ends_with(value, <<"@">>)
                           THEN SubSeq(value, 1, Len(value) - 1) ELSE value))

\* AdocMetadata::from_cmd_opts: the attributes of the first "-a" option
from_cmd_opts(opts, acx) ==
    LET a == SelectSeq(opts, LAMBDA o : o[1] = "-a")
    IN  IF a = <<>> THEN AdocMetadata(<<>>, <<>>, <<>>)
        ELSE AdocMetadata(<<>>, [i \in 1..Len(a[1][2]) |-> CmdAttr(a[1][2][i], acx)], <<>>)

\* AdocMetadata::derive
derive(self, base) == [self EXCEPT !.base = <<base>>]

extract_with_base(adoc_text, acx) ==
    derive(extract(adoc_text, acx), from_cmd_opts(acx.opts, acx))

\* ------------------------------------------------------------------- state

VARIABLES
    book,        \* the loaded BookStructure
    mtime,       \* source root: modification time of each file (0: absent)
    content,     \* source root: text version of each file
    indexFile,   \* .adbook-cache/index: "none", "corrupt" or "data" with entries
    mirror,      \* the cache directory of rendered artifacts
    site,        \* the site directory
    pc,          \* position of build_book ("idle": no build runs)
    force,       \* force_rebuild of the running build
    loaded,      \* entries of the CacheIndex in memory
    cache_diff,  \* builder.cache_diff
    tasks,       \* the spawned units: [src, st, res]
    pb,          \* the progress bar behind its mutex: [len, pos, lock]
    results,     \* what walk_book_async returned
    outputs,     \* what walk_book_await_collect returned
    errors,      \* the error list of the running assembly
    incl,        \* the include create_site_directory is at
    builds,      \* builds started
    changes,     \* changes the user made
    faults,      \* failures the file system answered with
    startIndex,  \* the index file as the running (or last) build found it
    lastResult,  \* "none", "ok" (build_book returned Ok) or "err"
    failedAt,    \* the step that returned the error
    quiet,       \* the user changed nothing since the last build ended
    prevOk,      \* the build before the running (or last) one returned Ok, and
                 \* nothing was changed between the two
    prevSite,    \* the site's files when the build before the last one ended
    invoked,     \* conversion engine invocations per file in the running build
    lfs,         \* the loader's view of the source root: what is at each path
    ix_ron,      \* the root index.ron
    sub_ron,     \* the index.ron of the sub-directory
    loadRes,     \* what BookStructure::from_dir got from the loader
    stack,       \* the calls of from_index_ron_recursive that have not returned
    adoc_text,   \* the lines of a document
    adoc_opts,   \* adoc_opts of book.ron
    metadata,    \* what AdocMetadata::extract_with_base returned, if it did
    conv         \* convert_adoc_buf: its position, the mode of asciidoctor, the
                 \* runs of the template engine and whether it returned Ok

fsVars == <<mtime, content, indexFile, mirror, site>>
runVars == <<pc, force, loaded, cache_diff, tasks, pb, results, outputs, errors, incl>>
ghostVars == <<builds, changes, faults, startIndex, lastResult, failedAt, quiet, prevOk, prevSite, invoked>>
loadVars == <<lfs, ix_ron, sub_ron, loadRes, stack>>
metaVars == <<adoc_text, adoc_opts, metadata, conv>>
vars == <<book, fsVars, runVars, ghostVars, loadVars, metaVars>>

NoRes == [ok |-> FALSE, string |-> NoFile, src_file |-> NoPath]
IdlePb == [len |-> 0, pos |-> 0, lock |-> 0]
MirrorPaths == {with_extension(p, "html") : p \in DocPaths}

\* the source root as the books of the build runs have it
BookFs ==
    [p \in LoadPaths |-> IF p \in {<<"d">>} THEN "dir"
                         ELSE IF p \in {<<"b">>, <<"c">>} THEN "none" ELSE "file"]
NotLoaded == [done |-> FALSE, ok |-> FALSE, index |-> NoIndex, errors |-> <<>>, err |-> NoError]

NotConverted == [pc |-> "extract", embedded |-> FALSE, hbs |-> 0, ok |-> TRUE]

\* no document is read
NoDocument ==
    /\ adoc_text = <<>>
    /\ adoc_opts = <<>>
    /\ metadata = <<>>
    /\ conv = NotConverted

\* no build runs and none has run
BuildIdle ==
    /\ mtime = [p \in SrcPaths |-> 1]
    /\ content = [p \in SrcPaths |-> 1]
    /\ indexFile = [kind |-> "none", entries |-> <<>>]
    /\ mirror = EmptyTree(MirrorPaths)
    /\ site = EmptyTree(SitePaths)
    /\ pc = "idle"
    /\ force = FALSE
    /\ loaded = <<>>
    /\ cache_diff = NoDiff
    /\ tasks = <<>>
    /\ pb = IdlePb
    /\ results = <<>>
    /\ outputs = <<>>
    /\ errors = <<>>
    /\ incl = 1
    /\ builds = 0
    /\ changes = 0
    /\ faults = 0
    /\ startIndex = [kind |-> "none", entries |-> <<>>]
    /\ lastResult = "none"
    /\ failedAt = ""
    /\ quiet = FALSE
    /\ prevOk = FALSE
    /\ prevSite = site.files
    /\ invoked = [p \in DocPaths |-> 0]

Init ==
    /\ book \in Books
    /\ BuildIdle
    /\ lfs = BookFs
    /\ ix_ron = IndexRon("s", <<IndexRonFile("a"), IndexRonDir("d")>>)
    /\ sub_ron = IndexRon("s", <<>>)
    /\ loadRes = NotLoaded
    /\ stack = <<>>
    /\ NoDocument

\* -------------------------------------------------------------- the user

\* the user touches a file (new modification time, same text), or removes or
\* creates the file that is no document
Touch(p, t) ==
    /\ pc = "idle" /\ changes < MaxChanges /\ builds > 0
    /\ t # mtime[p]
    /\ t = 0 => p \notin DocPaths
    /\ mtime' = [mtime EXCEPT ![p] = t]
    /\ changes' = changes + 1
    /\ quiet' = FALSE
    /\ UNCHANGED <<metaVars, loadVars, book, content, indexFile, mirror, site, runVars, builds, faults,
                   startIndex, lastResult, failedAt, prevOk, prevSite, invoked>>

\* the user edits a file: new text and new modification time
Edit(p, t, c) ==
    /\ pc = "idle" /\ changes < MaxChanges /\ builds > 0
    /\ mtime[p] # 0 /\ t # 0 /\ t # mtime[p] /\ c # content[p]
    /\ mtime' = [mtime EXCEPT ![p] = t]
    /\ content' = [content EXCEPT ![p] = c]
    /\ changes' = changes + 1
    /\ quiet' = FALSE
    /\ UNCHANGED <<metaVars, loadVars, book, indexFile, mirror, site, runVars, builds, faults,
                   startIndex, lastResult, failedAt, prevOk, prevSite, invoked>>

\* the index file is damaged: it no longer deserializes
CorruptIndex ==
    /\ pc = "idle" /\ changes < MaxChanges
    /\ indexFile.kind = "data"
    /\ indexFile' = [kind |-> "corrupt", entries |-> <<>>]
    /\ changes' = changes + 1
    /\ quiet' = FALSE
    /\ UNCHANGED <<metaVars, loadVars, book, mtime, content, mirror, site, runVars, builds, faults,
                   startIndex, lastResult, failedAt, prevOk, prevSite, invoked>>

\* the user puts an entry into the site directory
PutInSite(p) ==
    /\ pc = "idle" /\ changes < MaxChanges
    /\ site.files[p] = NoFile
    /\ site' = [files |-> [site.files EXCEPT ![p] = UserBytes(p)],
                dirs |-> IF p.dir = "" THEN site.dirs ELSE site.dirs \cup {p.dir}]
    /\ changes' = changes + 1
    /\ quiet' = FALSE
    /\ UNCHANGED <<metaVars, loadVars, book, mtime, content, indexFile, mirror, runVars, builds, faults,
                   startIndex, lastResult, failedAt, prevOk, prevSite, invoked>>

\* ------------------------------------------------------------- build_book

\* what build_book leaves behind when it returns
Return(result, step) ==
    /\ pc' = "idle"
    /\ lastResult' = result
    /\ failedAt' = step
    /\ quiet' = TRUE
    /\ UNCHANGED force
    /\ loaded' = <<>>
    /\ tasks' = <<>>
    /\ pb' = IdlePb
    /\ results' = <<>>
    /\ outputs' = <<>>
    /\ errors' = <<>>
    /\ incl' = 1
    /\ cache_diff' = IF result = "ok" THEN cache_diff ELSE NoDiff

\* a step the file system lets succeed (ok) or fail
Io(ok) ==
    /\ ok \/ faults < MaxFaults
    /\ faults' = IF ok THEN faults ELSE faults + 1

\* `adbook build`, with or without --force
StartBuild(f) ==
    /\ pc = "idle" /\ builds < MaxBuilds
    /\ pc' = "validate"
    /\ force' = f
    /\ builds' = builds + 1
    /\ startIndex' = indexFile
    /\ prevOk' = (lastResult = "ok" /\ quiet)
    /\ prevSite' = IF lastResult = "ok" /\ quiet THEN site.files ELSE EmptyTree(SitePaths).files
    /\ invoked' = [p \in DocPaths |-> 0]
    /\ lastResult' = "none"
    /\ failedAt' = ""
    /\ cache_diff' = NoDiff
    /\ UNCHANGED <<metaVars, loadVars, book, fsVars, loaded, tasks, pb, results, outputs, errors, incl,
                   changes, faults, quiet>>

\* a bug: a site directory that cannot be ensured is only logged
ValidateSiteDirLogged(ok) ==
    /\ pc = "validate"
    /\ Io(ok)
    /\ pc' = "load"
    /\ UNCHANGED <<force, loaded, cache_diff, tasks, pb, results, outputs,
                   errors, incl, lastResult, failedAt, quiet>>
    /\ UNCHANGED <<metaVars, loadVars, book, fsVars, builds, changes, startIndex, prevOk, prevSite, invoked>>

\* utils::validate_dir(&site_dir)?
ValidateSiteDir(ok) ==
    /\ pc = "validate"
    /\ Io(ok)
    /\ IF ok THEN /\ pc' = "load"
                  /\ UNCHANGED <<force, loaded, cache_diff, tasks, pb, results, outputs,
                                 errors, incl, lastResult, failedAt, quiet>>
             ELSE Return("err", "validate")
    /\ UNCHANGED <<metaVars, loadVars, book, fsVars, builds, changes, startIndex, prevOk, prevSite, invoked>>

\* CacheIndex::load: Ok(Default) without an index file, Err when the file
\* cannot be opened (io) or deserialized
CacheIndex_load(file, io) ==
    IF file.kind = "none" THEN [ok |-> TRUE, entries |-> <<>>]
    ELSE IF ~io \/ file.kind = "corrupt" THEN [ok |-> FALSE, entries |-> <<>>]
    ELSE [ok |-> TRUE, entries |-> file.entries]

\* a bug: the index file is loaded under --force as well
LoadIndexAlways(io) ==
    /\ pc = "load"
    /\ ~io => indexFile.kind = "data"
    /\ Io(io)
    /\ LET r == CacheIndex_load(indexFile, io)
       IN  IF r.ok THEN /\ pc' = "diff"
                        /\ loaded' = r.entries
                        /\ UNCHANGED <<force, cache_diff, tasks, pb, results, outputs,
                                       errors, incl, lastResult, failedAt, quiet>>
                   ELSE Return("err", "load")
    /\ UNCHANGED <<metaVars, loadVars, book, fsVars, builds, changes, startIndex, prevOk, prevSite, invoked>>

\* let index = if force_rebuild { CacheIndex::empty() } else { CacheIndex::load(book)? }
LoadIndex(io) ==
    /\ pc = "load"
    /\ ~io => (~force /\ indexFile.kind = "data")
    /\ Io(io)
    /\ LET r == IF force THEN [ok |-> TRUE, entries |-> <<>>]
                ELSE CacheIndex_load(indexFile, io)
       IN  IF r.ok THEN /\ pc' = "diff"
                        /\ loaded' = r.entries
                        /\ UNCHANGED <<force, cache_diff, tasks, pb, results, outputs,
                                       errors, incl, lastResult, failedAt, quiet>>
                   ELSE Return("err", "load")
    /\ UNCHANGED <<metaVars, loadVars, book, fsVars, builds, changes, startIndex, prevOk, prevSite, invoked>>

\* index.create_diff(book)? and AdocBookBuilder::from_book(..)?: the snapshot
\* of the source root is taken here
CreateDiff(ok) ==
    /\ pc = "diff"
    /\ Io(ok)
    /\ IF ok THEN /\ pc' = "which"
                  /\ cache_diff' = create_diff(loaded, mtime)
                  /\ UNCHANGED <<force, loaded, tasks, pb, results, outputs,
                                 errors, incl, lastResult, failedAt, quiet>>
             ELSE Return("err", "diff")
    /\ UNCHANGED <<metaVars, loadVars, book, fsVars, builds, changes, startIndex, prevOk, prevSite, invoked>>

\* if which::which("asciidoctor").is_err() { bail!(..) }
WhichAsciidoctor(ok) ==
    /\ pc = "which"
    /\ Io(ok)
    /\ IF ok THEN /\ pc' = "walk"
                  /\ UNCHANGED <<force, loaded, cache_diff, tasks, pb, results, outputs,
                                 errors, incl, lastResult, failedAt, quiet>>
             ELSE Return("err", "which")
    /\ UNCHANGED <<metaVars, loadVars, book, fsVars, builds, changes, startIndex, prevOk, prevSite, invoked>>

\* ---------------------------------------------------------- walk_book_async

\* AdocBookBuilder::can_skip_build
can_skip_build(diff, p) == ~need_build(diff, p)

\* the units spawned for the files `files`
SpawnAll(files) == [i \in 1..Len(files) |-> [src |-> files[i], st |-> "spawned", res |-> NoRes]]

\* walk_book_async up to the spawn of the units: the early return when no
\* file needs a build, else one unit per listed file and the progress bar
Walk ==
    /\ pc = "walk"
    /\ LET src_files == list_src_files(book)
           any_build == \E i \in 1..Len(src_files) : ~can_skip_build(cache_diff, src_files[i])
       IN  IF ~any_build \/ src_files = <<>>
           THEN /\ pc' = "collect"
                /\ results' = NoFileToBuild(book, cache_diff)
                /\ UNCHANGED <<tasks, pb>>
           ELSE /\ pc' = "units"
                /\ tasks' = SpawnAll(src_files)
                /\ pb' = [len |-> Len(src_files), pos |-> 0, lock |-> 0]
                /\ UNCHANGED results
    /\ UNCHANGED <<metaVars, loadVars, book, fsVars, force, loaded, cache_diff, outputs, errors, incl, ghostVars>>

\* a bug: a file whose artifact is missing is rendered again without a word
ReadCachedOrRender(tree, p) ==
    LET cached_file == with_extension(p, "html")
    IN  IF tree.files[cached_file] = NoFile THEN BuildOutput(Render(p, content[p]), p)
        ELSE BuildOutput(tree.files[cached_file], p)

\* the artifact of a file that needs no build, read from the cache directory
ReadCached(tree, p) ==
    LET cached_file == with_extension(p, "html")
    IN  IF tree.files[cached_file] = NoFile THEN BuildError(p)
        ELSE BuildOutput(tree.files[cached_file], p)

\* a bug: the units convert into the buffer of one shared builder, and a unit
\* hands on what another unit left in it
UnitOutputShared(ts, t, string) ==
    IF \E u \in 1..Len(ts) : u # t /\ ts[u].st # "spawned" /\ ts[u].res.ok
    THEN LET u == CHOOSE u \in 1..Len(ts) : u # t /\ ts[u].st # "spawned" /\ ts[u].res.ok
         IN  BuildOutput(ts[u].res.string, ts[t].src)
    ELSE BuildOutput(string, ts[t].src)

\* let mut builder = builder.clone(): unit t converts into the buffer of its
\* own builder, whatever the other units did
UnitOutput(ts, t, string) == BuildOutput(string, ts[t].src)

\* builder.convert_file(&src_file) of unit t: the cached artifact when the
\* build can be skipped, else one run of the conversion engine, which
\* succeeds (ok) or fails
ConvertFile(t, ok) ==
    /\ pc = "units"
    /\ t \in 1..Len(tasks)
    /\ tasks[t].st = "spawned"
    /\ LET p == tasks[t].src
       IN  IF can_skip_build(cache_diff, p)
           THEN /\ ok
                /\ UNCHANGED faults
                /\ tasks' = [tasks EXCEPT ![t].st = "converted",
                                          ![t].res = ReadCached(mirror, p)]
                /\ UNCHANGED invoked
           ELSE /\ Io(ok)
                /\ tasks' = [tasks EXCEPT ![t].st = "converted",
                                          ![t].res = IF ok THEN UnitOutput(tasks, t, Render(p, content[p]))
                                                     ELSE BuildError(p)]
                /\ invoked' = [invoked EXCEPT ![p] = @ + 1]
    /\ UNCHANGED <<metaVars, loadVars, book, fsVars, pc, force, loaded, cache_diff, pb, results, outputs, errors,
                   incl, builds, changes, startIndex, lastResult, failedAt, quiet, prevOk, prevSite>>

\* whether unit t may take the mutex of the progress bar
CanLock(t) == pb.lock = 0

\* let pb = pb.lock().expect(..)
LockPb(t) ==
    /\ pc = "units"
    /\ t \in 1..Len(tasks)
    /\ tasks[t].st = "converted"
    /\ CanLock(t)
    /\ pb' = [pb EXCEPT !.lock = t]
    /\ tasks' = [tasks EXCEPT ![t].st = "locked"]
    /\ UNCHANGED <<metaVars, loadVars, book, fsVars, pc, force, loaded, cache_diff, results, outputs, errors,
                   incl, ghostVars>>

\* a bug: only a unit that succeeded counts
ProgressOnSuccess(res) == IF res.ok THEN 1 ELSE 0

\* the steps unit t adds to the progress bar with its result
Progress(res) == 1

\* a bug: the guard of unit t is leaked and the mutex stays locked
GuardLeaked(t) == t

\* the holder of the mutex once the guard of unit t is dropped: nobody
GuardDropped(t) == 0

\* pb.inc(1); res  (the guard is dropped as the unit ends)
IncPb(t) ==
    /\ pc = "units"
    /\ t \in 1..Len(tasks)
    /\ tasks[t].st = "locked"
    /\ pb' = [pb EXCEPT !.pos = @ + Progress(tasks[t].res), !.lock = GuardDropped(t)]
    /\ tasks' = [tasks EXCEPT ![t].st = "done"]
    /\ UNCHANGED <<metaVars, loadVars, book, fsVars, pc, force, loaded, cache_diff, results, outputs, errors,
                   incl, ghostVars>>

\* a bug: the join stops at the first unit that failed (try_join_all)
RECURSIVE JoinedUntilError(_)
JoinedUntilError(ts) ==
    IF ts = <<>> THEN <<>>
    ELSE IF ~Head(ts).res.ok THEN <<Head(ts).res>>
    ELSE <<Head(ts).res>> \o JoinedUntilError(Tail(ts))

\* the result of each unit, in the order of the units
JoinedResults(ts) == [i \in 1..Len(ts) |-> ts[i].res]

\* a bug: the join returns with the first unit that ended (select, not join)
AnyJoined(ts) == \E t \in 1..Len(ts) : ts[t].st = "done"

\* join_all is ready when every spawned unit has ended
AllJoined(ts) == \A t \in 1..Len(ts) : ts[t].st = "done"

\* futures::future::join_all(tasks).await, then pb.lock() and pb.finish()
JoinAll ==
    /\ pc = "units"
    /\ AllJoined(tasks)
    /\ pb.lock = 0
    /\ results' = JoinedResults(tasks)
    /\ pc' = "collect"
    /\ UNCHANGED <<metaVars, loadVars, book, fsVars, force, loaded, cache_diff, tasks, pb, outputs, errors,
                   incl, ghostVars>>

\* a bug: one failed unit drops the outputs of all (collect into a Result)
CollectAllOrNothing(rs) ==
    IF \E i \in 1..Len(rs) : ~rs[i].ok THEN <<>> ELSE rs

\* walk_book_await_collect: the outputs kept, the errors printed
RECURSIVE CollectOutputs(_)
CollectOutputs(rs) ==
    IF rs = <<>> THEN <<>>
    ELSE (IF Head(rs).ok THEN <<Head(rs)>> ELSE <<>>) \o CollectOutputs(Tail(rs))

Collect ==
    /\ pc = "collect"
    /\ outputs' = CollectOutputs(results)
    /\ pc' = "clear"
    /\ UNCHANGED <<metaVars, loadVars, book, fsVars, force, loaded, cache_diff, tasks, pb, results, errors,
                   incl, ghostVars>>

\* ------------------------------------------------- create_site_directory

\* utils::clear_directory_items(&site_dir, ..)?
ClearSite(ok) ==
    /\ pc = "clear"
    /\ Io(ok)
    /\ IF ok THEN /\ pc' = "includes"
                  /\ site' = clear_directory_items(site)
                  /\ UNCHANGED <<force, loaded, cache_diff, tasks, pb, results, outputs,
                                 errors, incl, lastResult, failedAt, quiet>>
             ELSE /\ Return("err", "clear")
                  /\ UNCHANGED site
    /\ UNCHANGED <<metaVars, loadVars, book, mtime, content, indexFile, mirror, builds, changes, startIndex,
                   prevOk, prevSite, invoked>>

\* a bug: only the first include that is skipped is recorded
RecordIncludeOnce(errs, rel_path) ==
    IF errs = <<>> THEN <<[step |-> "include", path |-> rel_path]>> ELSE errs

\* errors.push(anyhow!(.., rel_path.display()))
RecordInclude(errs, rel_path) == Append(errs, [step |-> "include", path |-> rel_path])

\* one round of the loop over book.book_ron.includes: a path that is not
\* relative or does not exist is recorded and skipped; a file is copied with
\* fs::copy(..)?, which fails when the directory of the destination is not
\* there; a directory is copied with copy_items_rec(..)?
CopyInclude(ok) ==
    /\ pc = "includes"
    /\ Io(ok)
    /\ incl <= Len(book.includes)
    /\ LET rel_path == book.includes[incl]
       IN  IF ~is_relative(rel_path) \/ ~SrcExists(mtime, rel_path)
           THEN /\ ok
                /\ errors' = RecordInclude(errors, rel_path)
                /\ incl' = incl + 1
                /\ UNCHANGED <<site, pc, force, loaded, cache_diff, tasks, pb, results,
                               outputs, lastResult, failedAt, quiet>>
           ELSE IF SrcIsFile(mtime, rel_path) /\ ~CanCopyFile(site, rel_path)
           THEN /\ ok
                /\ Return("err", "include")
                /\ UNCHANGED site
           ELSE IF ok
           THEN /\ site' = IF SrcIsFile(mtime, rel_path)
                           THEN CopyFile(site, rel_path, Raw(rel_path, content[rel_path]))
                           ELSE copy_items_rec(site, mtime, content, rel_path)
                /\ incl' = incl + 1
                /\ UNCHANGED <<errors, pc, force, loaded, cache_diff, tasks, pb, results,
                               outputs, lastResult, failedAt, quiet>>
           ELSE /\ Return("err", "include")
                /\ UNCHANGED site
    /\ UNCHANGED <<metaVars, loadVars, book, mtime, content, indexFile, mirror, builds, changes, startIndex,
                   prevOk, prevSite, invoked>>

\* self::write_html_outputs(errors, &src_dir, &site_dir, outputs)?
WriteSite(j, kind) ==
    /\ pc = "includes"
    /\ incl > Len(book.includes)
    /\ LET r == write_html_outputs(site, outputs, 1, j, kind)
       IN  /\ Io(r.ok /\ r.errors = <<>>)
           /\ kind = "none" <=> (r.ok /\ r.errors = <<>>)
           /\ site' = r.tree
           /\ IF r.ok THEN /\ pc' = "theme"
                           /\ errors' = errors \o r.errors
                           /\ UNCHANGED <<force, loaded, cache_diff, tasks, pb, results,
                                          outputs, incl, lastResult, failedAt, quiet>>
                      ELSE Return("err", "write")
    /\ UNCHANGED <<metaVars, loadVars, book, mtime, content, indexFile, mirror, builds, changes, startIndex,
                   prevOk, prevSite, invoked>>

\* if book.book_ron.use_default_theme { copy_default_theme(&site_dir)? }
CopyTheme(ok) ==
    /\ pc = "theme"
    /\ Io(ok)
    /\ IF ~book.use_default_theme
       THEN /\ ok
            /\ pc' = "cache"
            /\ UNCHANGED <<site, force, loaded, cache_diff, tasks, pb, results, outputs,
                           errors, incl, lastResult, failedAt, quiet>>
       ELSE IF ok
       THEN /\ pc' = "cache"
            /\ site' = copy_default_theme(site)
            /\ UNCHANGED <<force, loaded, cache_diff, tasks, pb, results, outputs,
                           errors, incl, lastResult, failedAt, quiet>>
       ELSE /\ Return("err", "theme")
            /\ UNCHANGED site
    /\ UNCHANGED <<metaVars, loadVars, book, mtime, content, indexFile, mirror, builds, changes, startIndex,
                   prevOk, prevSite, invoked>>

\* a bug: the index is saved before the artifacts are mirrored
WriteCacheSavingFirst(j, kind) ==
    /\ pc = "cache"
    /\ LET r == write_html_outputs(mirror, outputs, 1, j, kind)
       IN  /\ Io(r.ok /\ r.errors = <<>>)
           /\ kind = "none" <=> (r.ok /\ r.errors = <<>>)
           /\ mirror' = r.tree
           /\ indexFile' = SavedIndex(loaded, into_new_cache_data(cache_diff))
           /\ IF r.ok THEN /\ pc' = "save"
                           /\ UNCHANGED <<force, loaded, cache_diff, tasks, pb, results,
                                          outputs, errors, incl, lastResult, failedAt, quiet>>
                      ELSE Return("err", "cache")
    /\ UNCHANGED <<metaVars, loadVars, book, mtime, content, site, builds, changes, startIndex,
                   prevOk, prevSite, invoked>>

\* CacheIndex::locate_cache_dir(book)? and
\* self::write_html_outputs(&mut errors, &src_dir, &cache_dir, &outputs)?
WriteCache(j, kind) ==
    /\ pc = "cache"
    /\ LET r == write_html_outputs(mirror, outputs, 1, j, kind)
       IN  /\ Io(r.ok /\ r.errors = <<>>)
           /\ kind = "none" <=> (r.ok /\ r.errors = <<>>)
           /\ mirror' = r.tree
           /\ IF r.ok THEN /\ pc' = "save"
                           /\ UNCHANGED <<force, loaded, cache_diff, tasks, pb, results,
                                          outputs, errors, incl, lastResult, failedAt, quiet>>
                      ELSE Return("err", "cache")
    /\ UNCHANGED <<metaVars, loadVars, book, mtime, content, indexFile, site, builds, changes, startIndex,
                   prevOk, prevSite, invoked>>

\* a bug: the snapshot is taken again when the index is saved
UpdateCacheIndexRecaptured(ok, damaged) ==
    /\ pc = "save"
    /\ Io(ok)
    /\ IF ok
       THEN /\ ~damaged
            /\ indexFile' = SavedIndex(loaded, create_new_cache(mtime))
            /\ Return("ok", "")
       ELSE /\ indexFile' = IF damaged THEN [kind |-> "corrupt", entries |-> <<>>]
                            ELSE indexFile
            /\ Return("err", "save")
    /\ UNCHANGED <<metaVars, loadVars, book, mtime, content, mirror, site, builds, changes, startIndex,
                   prevOk, prevSite, invoked>>

\* index.update_cache_index(book, builder.cache_diff.into_new_cache_data())?
\* then Ok(()); a failed write leaves the old file or a damaged one
UpdateCacheIndex(ok, damaged) ==
    /\ pc = "save"
    /\ Io(ok)
    /\ IF ok
       THEN /\ ~damaged
            /\ indexFile' = SavedIndex(loaded, into_new_cache_data(cache_diff))
            /\ Return("ok", "")
       ELSE /\ indexFile' = IF damaged THEN [kind |-> "corrupt", entries |-> <<>>]
                            ELSE indexFile
            /\ Return("err", "save")
    /\ UNCHANGED <<metaVars, loadVars, book, mtime, content, mirror, site, builds, changes, startIndex,
                   prevOk, prevSite, invoked>>

\* ------------------------------------------------------------------- spec

\* the files the user changes
Touched == {A, X}
Edited == {A}
Times == 0..MaxTime
Contents == 1..MaxContent
Units == 1..(Cardinality(DocPaths) + 1)

Next ==
    \/ \E p \in Touched, t \in Times : Touch(p, t)
    \/ \E p \in Edited, t \in Times, c \in Contents : Edit(p, t, c)
    \/ CorruptIndex
    \/ \E p \in {GitHead, Fifo} : PutInSite(p)
    \/ \E f \in BOOLEAN : StartBuild(f)
    \/ \E ok \in BOOLEAN : ValidateSiteDir(ok)
    \/ \E io \in BOOLEAN : LoadIndex(io)
    \/ \E ok \in BOOLEAN : CreateDiff(ok)
    \/ \E ok \in BOOLEAN : WhichAsciidoctor(ok)
    \/ Walk
    \/ \E t \in Units, ok \in BOOLEAN : ConvertFile(t, ok)
    \/ \E t \in Units : LockPb(t)
    \/ \E t \in Units : IncPb(t)
    \/ JoinAll
    \/ Collect
    \/ \E ok \in BOOLEAN : ClearSite(ok)
    \/ \E ok \in BOOLEAN : CopyInclude(ok)
    \/ \E j \in Units, kind \in WriteFailures : WriteSite(j, kind)
    \/ \E ok \in BOOLEAN : CopyTheme(ok)
    \/ \E j \in Units, kind \in WriteFailures : WriteCache(j, kind)
    \/ \E ok \in BOOLEAN, damaged \in BOOLEAN : UpdateCacheIndex(ok, damaged)

Spec == Init /\ [][Next]_vars

\* ------------------------------------------- builds of a changing source

\* the files the user changes while a build runs
Changing == {S, A}

\* the user saves a file while a build runs: a new modification time
ChangeWhileBuilding(p, t) ==
    /\ pc # "idle" /\ changes < MaxChanges
    /\ t # 0 /\ t # mtime[p]
    /\ mtime' = [mtime EXCEPT ![p] = t]
    /\ changes' = changes + 1
    /\ UNCHANGED <<metaVars, loadVars, book, content, indexFile, mirror, site, runVars, builds, faults,
                   startIndex, lastResult, failedAt, quiet, prevOk, prevSite, invoked>>

\* the builds, one after another, with changes of the source while they run
NextChanging ==
    \/ \E p \in Changing, t \in Times : ChangeWhileBuilding(p, t)
    \/ \E f \in BOOLEAN : StartBuild(f)
    \/ \E ok \in BOOLEAN : ValidateSiteDir(ok)
    \/ \E io \in BOOLEAN : LoadIndex(io)
    \/ \E ok \in BOOLEAN : CreateDiff(ok)
    \/ \E ok \in BOOLEAN : WhichAsciidoctor(ok)
    \/ Walk
    \/ \E t \in Units, ok \in BOOLEAN : ConvertFile(t, ok)
    \/ \E t \in Units : LockPb(t)
    \/ \E t \in Units : IncPb(t)
    \/ JoinAll
    \/ Collect
    \/ \E ok \in BOOLEAN : ClearSite(ok)
    \/ \E ok \in BOOLEAN : CopyInclude(ok)
    \/ \E j \in Units, kind \in WriteFailures : WriteSite(j, kind)
    \/ \E ok \in BOOLEAN : CopyTheme(ok)
    \/ \E j \in Units, kind \in WriteFailures : WriteCache(j, kind)
    \/ \E ok \in BOOLEAN, damaged \in BOOLEAN : UpdateCacheIndex(ok, damaged)

ChangingSpec == Init /\ [][NextChanging]_vars

\* ------------------------------------------------------- the walker alone

\* one build up to the end of the walk
NextWalker ==
    \/ \E f \in BOOLEAN : StartBuild(f)
    \/ \E ok \in BOOLEAN : ValidateSiteDir(ok)
    \/ \E io \in BOOLEAN : LoadIndex(io)
    \/ \E ok \in BOOLEAN : CreateDiff(ok)
    \/ \E ok \in BOOLEAN : WhichAsciidoctor(ok)
    \/ Walk
    \/ \E t \in Units, ok \in BOOLEAN : ConvertFile(t, ok)
    \/ \E t \in Units : LockPb(t)
    \/ \E t \in Units : IncPb(t)
    \/ JoinAll
    \/ Collect

\* the executor runs every spawned unit: a conversion that can end does end,
\* a unit that can take the free mutex does take it, a unit that holds the
\* mutex goes on, and the caller goes on once the join is ready
WalkerSpec ==
    /\ Init
    /\ [][NextWalker]_vars
    /\ \A t \in Units : WF_vars(\E ok \in BOOLEAN : ConvertFile(t, ok))
    /\ \A t \in Units : WF_vars(LockPb(t))
    /\ \A t \in Units : WF_vars(IncPb(t))
    /\ WF_vars(JoinAll)

\* ------------------------------------------------------- the loader alone

RonItems == {IndexRonFile("a"), IndexRonFile("b"), IndexRonFile("c"), IndexRonDir("d")}
\* the lists of at most MaxItems declared entries, no entry twice
ItemLists ==
    UNION {{l \in [1..n -> RonItems] : \A i, j \in 1..n : l[i] = l[j] => i = j} :
           n \in 0..MaxItems}
SubRons == {IndexRon("s", <<>>), IndexRon("s", <<IndexRonFile("a")>>)}

\* the source roots: below "d" there is something only when "d" is a directory
LoadFs ==
    {[p \in LoadPaths |->
        CASE p = <<"s">> -> ks
          [] p = <<"a">> -> ka
          [] p = <<"b">> -> kb
          [] p = <<"c">> -> kc
          [] p = <<"d">> -> kd
          [] p = <<"d", INDEX_RON>> -> IF kd = "dir" THEN ki ELSE "none"
          [] p = <<"d", "s">> -> IF kd = "dir" THEN kds ELSE "none"
          [] p = <<"d", "a">> -> IF kd = "dir" THEN kda ELSE "none"] :
     ks \in {"none", "file", "dir"}, ka \in {"none", "file", "dir"},
     kb \in {"none", "file", "dir"}, kc \in {"none", "file"},
     kd \in {"none", "file", "dir"},
     ki \in {"none", "file", "unreadable", "unparsable"},
     kds \in {"none", "file"}, kda \in {"none", "file"}}

\* `converts` of book.ron: none, or the file c
ConvertLists == {<<>>, <<<<"c">>>>}

InitLoad ==
    /\ book \in {[BookFlat EXCEPT !.converts = c] : c \in ConvertLists}
    /\ BuildIdle
    /\ lfs \in LoadFs
    /\ ix_ron \in {IndexRon("s", l) : l \in ItemLists}
    /\ sub_ron \in SubRons
    /\ loadRes = NotLoaded
    /\ stack = <<>>
    /\ NoDocument

\* BookStructure::from_dir: Index::from_index_ron_recursive(&index_ron, &src_dir)?
LoadBook ==
    /\ ~loadRes.done
    /\ LET r == from_index_ron_recursive(ix_ron, <<>>, lfs, [d \in {<<"d">>} |-> sub_ron])
       IN  loadRes' = [done |-> TRUE, ok |-> r.ok, index |-> r.index,
                       errors |-> r.errors, err |-> r.err]
    /\ UNCHANGED <<metaVars, book, fsVars, runVars, ghostVars, lfs, ix_ron, sub_ron, stack>>

NextLoad == LoadBook

LoadSpec == InitLoad /\ [][NextLoad]_vars

\* ------------------------------------------------- the loader, call by call

\* the entries a description can declare here: a file, the sub-directory, and
\* the directory itself or its parent
CycleItems == {IndexRonFile("a"), IndexRonDir("d"), IndexRonDir("."), IndexRonDir("..")}
CycleRons ==
    {IndexRon("s", l) : l \in UNION {[1..n -> CycleItems] : n \in 0..2}}
\* a source root where every summary, a, d and d/index.ron are there
CycleFs ==
    [p \in LoadPaths |-> IF p = <<"d">> THEN "dir"
                         ELSE IF p \in {<<"b">>, <<"c">>} THEN "none" ELSE "file"]

\* ix_ron_dir.join(rel_path) and canonicalize()
canonicalize(dir, rel) ==
    IF rel = "." THEN dir
    ELSE IF rel = ".." THEN (IF dir = <<>> THEN <<"..">> ELSE SubSeq(dir, 1, Len(dir) - 1))
    ELSE Append(dir, rel)
\* the directories with an index.ron: the source root and d
HasIndexRon(fs, path) == path = <<>> \/ is_file(fs, join(path, INDEX_RON))
RonOf(path) == IF path = <<>> THEN ix_ron ELSE sub_ron
\* one call of from_index_ron_recursive: its directory and the item its loop is at
Call(dir) == [dir |-> dir, item |-> 1]

InitDescend ==
    /\ book = BookFlat
    /\ BuildIdle
    /\ NoDocument
    /\ lfs = CycleFs
    /\ ix_ron \in CycleRons
    /\ sub_ron \in CycleRons
    /\ loadRes = NotLoaded
    /\ stack = <<Call(<<>>)>>

\* one round of `for item in &ix_ron.items` that pushes a file or an error
LoopItem ==
    /\ stack # <<>>
    /\ LET call == stack[Len(stack)]
           items == RonOf(call.dir).items
       IN  /\ call.item <= Len(items)
           /\ \/ items[call.item].kind = "File"
              \/ ~HasIndexRon(lfs, canonicalize(call.dir, items[call.item].rel))
           /\ stack' = [stack EXCEPT ![Len(stack)].item = @ + 1]
    /\ UNCHANGED <<metaVars, book, fsVars, runVars, ghostVars, lfs, ix_ron, sub_ron, loadRes>>

\* a round at a directory with an index.ron:
\* Index::from_index_ron_recursive(&index_ron, &path)
Descend ==
    /\ stack # <<>> /\ Len(stack) < MaxDepth
    /\ LET call == stack[Len(stack)]
           items == RonOf(call.dir).items
       IN  /\ call.item <= Len(items)
           /\ items[call.item].kind = "Dir"
           /\ HasIndexRon(lfs, canonicalize(call.dir, items[call.item].rel))
           /\ stack' = Append(stack, Call(canonicalize(call.dir, items[call.item].rel)))
    /\ UNCHANGED <<metaVars, book, fsVars, runVars, ghostVars, lfs, ix_ron, sub_ron, loadRes>>

\* the loop is over: Ok((index, errors)) goes to the caller, whose loop goes on
Ascend ==
    /\ stack # <<>>
    /\ stack[Len(stack)].item > Len(RonOf(stack[Len(stack)].dir).items)
    /\ stack' = IF Len(stack) = 1 THEN <<>>
                 ELSE [SubSeq(stack, 1, Len(stack) - 1) EXCEPT ![Len(stack) - 1].item = @ + 1]
    /\ loadRes' = IF Len(stack) = 1 THEN [loadRes EXCEPT !.done = TRUE, !.ok = TRUE]
                   ELSE loadRes
    /\ UNCHANGED <<metaVars, book, fsVars, runVars, ghostVars, lfs, ix_ron, sub_ron>>

NextDescend == LoopItem \/ Descend \/ Ascend

DescendSpec == InitDescend /\ [][NextDescend]_vars

\* ---------------------------------------------------- the metadata alone

\* the lines of the documents: blank, a comment, a title, an attribute, a
\* denied attribute with text after it, an attribute with a placeholder, an
\* attribute below white space, and body lines without and with a colon
AdocLines ==
    {<<" ">>,
     <<"/", "/", ":", "a", ":">>,
     <<"=", " ", "T", " ">>,
     <<":", "a", ":", " ", "v">>,
     <<":", "!", "a", ":", " ", "x">>,
     <<":", "b", ":", "{base_url}">>,
     <<":", "h", "b", "s", ":", " ", "t">>,
     <<"p">>,
     <<"p", ":">>}
AdocTexts == UNION {[1..n -> AdocLines] : n \in 0..MaxLines}

AttrOpts ==
    {<<"a">>, <<"!", "a">>, <<"b", "=", "v">>, <<"b", "@", "=", "{base_url}", "@">>,
     <<"h", "b", "s", "=", "t">>, <<"!", "h", "b", "s">>}
AttrOptLists == UNION {[1..n -> AttrOpts] : n \in 0..MaxAttrOpts}
\* book.ron without "-a", with one, and with another option before it
AdocOpts ==
    {<<>>} \cup {<<<<"-a", l>>>> : l \in AttrOptLists}
           \cup {<<<<"-r", <<<<"x">>>>>>, <<"-a", l>>>> : l \in AttrOptLists}

InitMeta ==
    /\ book = BookFlat
    /\ BuildIdle
    /\ lfs = BookFs
    /\ ix_ron = IndexRon("s", <<IndexRonFile("a"), IndexRonDir("d")>>)
    /\ sub_ron = IndexRon("s", <<>>)
    /\ loadRes = NotLoaded
    /\ stack = <<>>
    /\ adoc_text \in AdocTexts
    /\ adoc_opts \in AdocOpts
    /\ metadata = <<>>
    /\ conv = NotConverted

\* the name of the attribute that names a template
HBS == <<"h", "b", "s">>

\* convert_adoc_buf: AdocMetadata::extract_with_base(&adoc_text, &acx), and
\* the embedded mode of asciidoctor when an attribute hbs is found
ExtractWithBase ==
    /\ conv.pc = "extract"
    /\ LET m == extract_with_base(adoc_text, AdocRunContext(adoc_opts))
       IN  /\ metadata' = <<m>>
           /\ conv' = [conv EXCEPT !.pc = "asciidoctor",
                                    !.embedded = find_attr(m, HBS) # <<>>]
    /\ UNCHANGED <<book, fsVars, runVars, ghostVars, loadVars, adoc_text, adoc_opts>>

\* adoc::run_asciidoctor_buf(buf, src_file, &acx)?
RunAsciidoctor(ok) ==
    /\ conv.pc = "asciidoctor"
    /\ conv' = IF ok THEN [conv EXCEPT !.pc = "hbs"]
                ELSE [conv EXCEPT !.pc = "done", !.ok = FALSE]
    /\ UNCHANGED <<book, fsVars, runVars, ghostVars, loadVars, adoc_text, adoc_opts, metadata>>

\* if let Some(hbs_attr) = metadata.find_attr("hbs"): the template engine
\* renders (ok) or fails; an attribute without a value is an error
ApplyHbs(ok) ==
    /\ conv.pc = "hbs"
    /\ LET hbs_attr == find_attr(metadata[1], HBS)
       IN  conv' = IF hbs_attr = <<>> THEN [conv EXCEPT !.pc = "done"]
                   ELSE IF hbs_attr[1].kind = "Deny"
                   THEN [conv EXCEPT !.pc = "done", !.ok = FALSE]
                   ELSE [conv EXCEPT !.pc = "done", !.hbs = @ + 1, !.ok = ok]
    /\ UNCHANGED <<book, fsVars, runVars, ghostVars, loadVars, adoc_text, adoc_opts, metadata>>

NextMeta == ExtractWithBase \/ (\E ok \in BOOLEAN : RunAsciidoctor(ok)) \/ (\E ok \in BOOLEAN : ApplyHbs(ok))

MetaSpec == InitMeta /\ [][NextMeta]_vars

\* ------------------------------------------------------------------ claims

HasEntry(entries, p) == \E i \in 1..Len(entries) : entries[i].path = p
Running == pc # "idle"
\* the running build has taken its snapshot and made its diff
Diffed == Running /\ pc \notin {"validate", "load", "diff"}
Files == list_src_files(book)
Finished(result) == pc = "idle" /\ builds > 0 /\ lastResult = result

\* C1: for a path of the current snapshot, need_build is true exactly when
\* there is no previous snapshot, or the previous snapshot has no entry of the
\* path, or the two recorded modification times differ (older or newer)
C1_NeedBuildExact ==
    Diffed =>
        \A p \in SrcPaths :
            HasEntry(cache_diff.new, p) =>
                (need_build(cache_diff, p) <=>
                    \/ ~cache_diff.old.some
                    \/ ~HasEntry(cache_diff.old.entries, p)
                    \/ \E i \in 1..Len(cache_diff.old.entries), j \in 1..Len(cache_diff.new) :
                           /\ cache_diff.old.entries[i].path = p
                           /\ cache_diff.new[j].path = p
                           /\ cache_diff.old.entries[i].last_modified
                                  # cache_diff.new[j].last_modified)

\* a build that finds a previous entry of a document with a newer time than
\* the file has now, and one with the same time
C1_Witness ==
    /\ pc = "walk"
    /\ cache_diff.old.some
    /\ \E i \in 1..Len(cache_diff.old.entries) :
           /\ cache_diff.old.entries[i].path = A
           /\ cache_diff.old.entries[i].last_modified < mtime[A]
           /\ need_build(cache_diff, A)
    /\ ~need_build(cache_diff, S)

\* C2: on a build that finds no index file need_build is true for every
\* listed file; on a build (not forced) that follows a build that returned Ok,
\* with nothing changed in between, need_build is false for every listed file
C2_FirstAndRepeatedBuild ==
    Diffed =>
        /\ startIndex.kind = "none" =>
               \A i \in 1..Len(Files) : need_build(cache_diff, Files[i])
        /\ (prevOk /\ ~force) =>
               \A i \in 1..Len(Files) : ~need_build(cache_diff, Files[i])

C2_Witness ==
    /\ pc = "walk" /\ prevOk /\ ~force
    /\ cache_diff.old.some
    /\ Len(Files) > 1

\* C3: a build (not forced) that follows a build that returned Ok, with
\* nothing changed in between, runs the engine for no file and leaves for every
\* document the rendered file the site held before
C3_RepeatedBuildSameOutputs ==
    (Finished("ok") /\ prevOk /\ ~force) =>
        /\ \A p \in DocPaths : invoked[p] = 0
        /\ \A i \in 1..Len(Files) :
               site.files[with_extension(Files[i], "html")]
                   = prevSite[with_extension(Files[i], "html")]

\* C4: in a build the conversion engine runs exactly once for a listed file
\* that needs a build and not at all for any other file
C4_EngineOncePerStaleFile ==
    /\ \A p \in DocPaths : invoked[p] <= 1
    /\ (pc = "collect" \/ Finished("ok")) =>
           \A p \in DocPaths :
               invoked[p] = IF /\ \E i \in 1..Len(Files) : Files[i] = p
                               /\ need_build(cache_diff, p)
                            THEN 1 ELSE 0

\* C5: a build that finds an index file it cannot deserialize goes on as a
\* first build and does not fail at the load of the index
C5_CorruptIndexStartsFresh ==
    (startIndex.kind = "corrupt" /\ ~force) =>
        /\ ~(Finished("err") /\ failedAt = "load")
        /\ Diffed => ~cache_diff.old.some

\* C6: the index file is as the build found it until the build reaches its
\* last step, and so it is after a build that failed before that step
C6_IndexSavedLast ==
    /\ Running => indexFile = startIndex
    /\ (Finished("err") /\ quiet /\ failedAt # "save") => indexFile = startIndex

\* a build that found an index, rendered and failed while it assembled
C6_Witness ==
    /\ Finished("err") /\ quiet
    /\ failedAt \in {"write", "cache"}
    /\ startIndex.kind = "data"
    /\ \E p \in DocPaths : invoked[p] > 0

\* C7: after a build that returned Ok the index file holds exactly one entry
\* per file under the source root, with the time the file has, and nothing of
\* the index the build found
C7_IndexIsNewSnapshot ==
    (Finished("ok") /\ quiet) =>
        /\ indexFile.kind = "data"
        /\ Len(indexFile.entries) = Cardinality({p \in SrcPaths : mtime[p] # 0})
        /\ \A p \in SrcPaths :
               IF mtime[p] = 0 THEN ~HasEntry(indexFile.entries, p)
               ELSE \E i \in 1..Len(indexFile.entries) :
                        indexFile.entries[i] = CacheEntry(p, mtime[p])

\* the build found an index with an entry of a file that is gone and an
\* entry of a file that has another time now
C7_Witness ==
    /\ Finished("ok") /\ quiet
    /\ startIndex.kind = "data"
    /\ HasEntry(startIndex.entries, X) /\ mtime[X] = 0
    /\ \E i \in 1..Len(startIndex.entries) :
           /\ startIndex.entries[i].path = A
           /\ startIndex.entries[i].last_modified # mtime[A]

\* C8: build_book returns no error for a failure of the clearing, of the copy
\* of an include, of the write of an artifact, of the copy of the theme or of
\* the mirroring
C8_OnlyTwoHardFailures ==
    Finished("err") => failedAt \notin {"clear", "include", "write", "theme", "cache"}

\* C9: the walker returns one outcome per dispatched unit, in the order of
\* the units, each with the path of its own file: what the unit itself
\* computed, whatever the other units did
C9_AllOutcomesReturned ==
    (pc = "collect" /\ tasks # <<>>) =>
        /\ Len(results) = Len(Files)
        /\ \A i \in 1..Len(Files) :
               /\ results[i].src_file = Files[i]
               /\ results[i] = tasks[i].res
               /\ results[i].ok =>
                      results[i].string =
                          IF need_build(cache_diff, Files[i])
                          THEN Render(Files[i], content[Files[i]])
                          ELSE mirror.files[with_extension(Files[i], "html")]
        /\ Cardinality({i \in 1..Len(results) : ~results[i].ok})
               = Cardinality({t \in 1..Len(tasks) : ~tasks[t].res.ok})

\* three units joined, of which the first failed and a later one succeeded
C9_Witness ==
    /\ pc = "collect" /\ Len(tasks) = 3
    /\ ~results[1].ok
    /\ results[3].ok

\* C10: the progress counter counts the units that completed, each once and
\* under the mutex, which one unit holds at a time; it never exceeds the total
\* and equals the number of units when the join has returned
C10_ProgressCounted ==
    /\ pb.pos <= pb.len
    /\ pc = "units" =>
           /\ pb.len = Len(tasks)
           /\ pb.pos = Cardinality({t \in 1..Len(tasks) : tasks[t].st = "done"})
           /\ \A t \in 1..Len(tasks) : tasks[t].st = "locked" <=> pb.lock = t
    /\ (pc = "collect" /\ tasks # <<>>) =>
           /\ pb.pos = Len(tasks)
           /\ pb.lock = 0

\* a unit that failed holds the mutex while another unit waits for it
C10_Witness ==
    /\ pc = "units"
    /\ \E t, u \in 1..Len(tasks) :
           /\ tasks[t].st = "locked" /\ ~tasks[t].res.ok
           /\ tasks[u].st = "converted"
    /\ pb.pos > 0

\* C11: every step that writes the output directory, the artifact mirror or
\* the index file is taken when no unit is running: all units the build
\* dispatched have ended and their outcomes are joined
C11_AssemblyAfterJoin ==
    [][(site' # site \/ mirror' # mirror \/ indexFile' # indexFile) =>
           /\ pc \notin {"walk", "units"}
           /\ \A t \in 1..Len(tasks) : tasks[t].st = "done"
           /\ Running => Len(results) = Len(tasks)]_vars

\* the assembly has written an artifact of a build that dispatched two units
C11_Witness ==
    /\ pc = "theme" /\ Len(tasks) = 2
    /\ site.files[with_extension(A, "html")] # NoFile
    /\ \E t \in 1..Len(tasks) : ~tasks[t].res.ok

C13_RenderFailuresAreSoft ==
    [][(Running /\ \E i \in 1..Len(results) : ~results[i].ok) =>
           /\ (pc' = "idle" /\ lastResult' = "err") =>
                  \/ faults' = faults + 1
                  \/ /\ pc = "includes" /\ incl <= Len(book.includes)
                     /\ ~CanCopyFile(site, book.includes[incl])
           /\ (pc' \in {"theme", "cache", "save"} \/ (pc' = "idle" /\ lastResult' = "ok")) =>
                  LET errs == IF pc' = "idle" THEN errors ELSE errors'
                  IN  \A i \in 1..Len(results) :
                          results[i].ok =>
                              LET dst == with_extension(results[i].src_file, "html")
                              IN  \/ site'.files[dst] = results[i].string
                                  \/ \E e \in 1..Len(errs) :
                                         errs[e] = [step |-> "mkdir", path |-> dst]]_vars

\* build_book returned Ok after a build in which the engine ran for the
\* article and gave no artifact, and the summary's artifact is published
C13_Witness ==
    /\ Finished("ok")
    /\ invoked[A] = 1 /\ invoked[S] = 1
    /\ site.files[with_extension(A, "html")] = NoFile
    /\ site.files[with_extension(S, "html")] = Render(S, content[S])

\* what the loader returned for the root description
Loaded == loadRes.done /\ loadRes.ok
\* a declared entry of the root description whose target can be loaded
ValidEntry(e) ==
    IF e.kind = "File" THEN lfs[<<e.rel>>] # "none"
    ELSE /\ lfs[<<e.rel>>] = "dir"
         /\ lfs[<<e.rel, INDEX_RON>>] = "file"
         /\ lfs[<<e.rel, sub_ron.summary>>] = "file"
\* a declared entry of the sub-directory's description whose target exists
ValidSubEntry(e) == lfs[<<"d", e.rel>>] # "none"

SubSummaryMissing ==
    /\ \E i \in 1..Len(ix_ron.items) : ix_ron.items[i] = IndexRonDir("d")
    /\ lfs[<<"d">>] = "dir"
    /\ lfs[<<"d", INDEX_RON>>] = "file"
    /\ lfs[<<"d", sub_ron.summary>>] # "file"

\* C15: the load of the root description fails exactly when its summary is
\* no file; when the summary of the sub-directory's description is no file
\* the root's index has no node of the sub-directory, the errors hold exactly
\* one FailedToLocateSummary of it, and every other entry whose target exists
\* has its node
C15_MissingSubSummary ==
    loadRes.done =>
        /\ loadRes.ok <=> lfs[<<ix_ron.summary>>] = "file"
        /\ ~loadRes.ok => loadRes.err = FailedToLocateSummary(ix_ron.summary, <<>>)
        /\ (loadRes.ok /\ SubSummaryMissing) =>
               /\ \A k \in 1..Len(loadRes.index.items) : loadRes.index.items[k].kind = "File"
               /\ Cardinality({k \in 1..Len(loadRes.errors) :
                                   loadRes.errors[k] = FailedToLocateSummary(sub_ron.summary, <<"d">>)}) = 1
               /\ \A k \in 1..Len(loadRes.errors) :
                      loadRes.errors[k].err \in {"FailedToLocateSummary", "FailedToLocateItem"}
               /\ \A i \in 1..Len(ix_ron.items) :
                      (ix_ron.items[i].kind = "File" /\ lfs[<<ix_ron.items[i].rel>>] # "none") =>
                          \E k \in 1..Len(loadRes.index.items) :
                              loadRes.index.items[k] = File(<<ix_ron.items[i].rel>>)

\* the sub-directory is declared first and its summary is missing: the entry
\* after it is loaded
C15_Witness ==
    /\ Loaded /\ SubSummaryMissing
    /\ ix_ron.items = <<IndexRonDir("d"), IndexRonFile("a")>>
    /\ loadRes.index.items = <<File(<<"a">>)>>
    /\ loadRes.errors = <<FailedToLocateSummary("s", <<"d">>)>>

\* C16: every File node of a loaded index is a regular file, every Dir node
\* an existing directory whose summary is a regular file
C16_NodesAreRegularFiles ==
    Loaded =>
        \A k \in 1..Len(loadRes.index.items) :
            LET node == loadRes.index.items[k]
            IN  IF node.kind = "File" THEN lfs[node.path] = "file"
                ELSE /\ lfs[<<"d">>] = "dir"
                     /\ lfs[node.index.summary] = "file"
                     /\ \A i \in 1..Len(node.index.items) :
                            lfs[node.index.items[i].path] = "file"

\* C17: when the output directory cannot be ensured, build_book returns the
\* error in that very step, and with that step the engine has run for no
\* file and the output directory, the mirror and the index file are as the
\* build found them
C17_NoSiteDirAbortsAtOnce ==
    [][(pc = "validate" /\ faults' = faults + 1) =>
           /\ pc' = "idle" /\ lastResult' = "err" /\ failedAt' = "validate"
           /\ site' = site /\ mirror' = mirror
           /\ indexFile' = startIndex
           /\ \A p \in DocPaths : invoked'[p] = 0]_vars

\* a build that found an index, a published site and a changed article
\* failed at the output directory
C17_Witness ==
    /\ Finished("err") /\ failedAt = "validate" /\ quiet
    /\ startIndex.kind = "data" /\ indexFile = startIndex
    /\ site.files[with_extension(A, "html")] # NoFile
    /\ \E i \in 1..Len(indexFile.entries) :
           /\ indexFile.entries[i].path = A
           /\ indexFile.entries[i].last_modified # mtime[A]
    /\ \A p \in DocPaths : invoked[p] = 0

\* C18: the clearing step leaves every entry of the output directory whose
\* top-level name starts with '.' as it is and removes every other entry
C18_ClearKeepsOnlyDotEntries ==
    [][(pc = "clear" /\ pc' = "includes") =>
           /\ \A p \in SitePaths :
                  site'.files[p] = IF TopName(p) \in DotNames THEN site.files[p] ELSE NoFile
           /\ site'.dirs = site.dirs \cap DotNames]_vars

\* the includes of the book that are skipped: not relative, or not there
SkippedInclude(p) == ~is_relative(p) \/ ~SrcExists(mtime, p)
\* create_site_directory has returned Ok
Assembled == pc \in {"theme", "cache", "save"}

\* C19: when the assembly has completed, the error list holds exactly one
\* error naming each declared include that is not relative or not there, in
\* the order of the declaration, and none for another include; the includes
\* that are there are copied, wherever in the list they are, and the artifact
\* of every output is written
C19_BadIncludesAreSkipped ==
    Assembled =>
        LET bad == SelectSeq(book.includes, SkippedInclude)
            includeErrors == SelectSeq(errors, LAMBDA e : e.step = "include")
        IN  /\ includeErrors = [i \in 1..Len(bad) |-> [step |-> "include", path |-> bad[i]]]
            /\ \A i \in 1..Len(book.includes) :
                   LET p == book.includes[i]
                   IN  ~SkippedInclude(p) =>
                           \A q \in SrcPaths :
                               (mtime[q] # 0 /\ (q = p \/ (p.stem = "" /\ q.dir = p.dir))) =>
                                   site.files[q] = Raw(q, content[q])
            /\ \A i \in 1..Len(outputs) :
                   LET dst == with_extension(outputs[i].src_file, "html")
                   IN  \/ site.files[dst] = outputs[i].string
                       \/ \E e \in 1..Len(errors) : errors[e] = [step |-> "mkdir", path |-> dst]

\* two includes were skipped, the one after them is copied and the artifacts
\* are written
C19_Witness ==
    /\ pc = "theme"
    /\ book.includes = <<AbsInclude, X, ImgDir>>
    /\ mtime[X] = 0
    /\ errors = <<[step |-> "include", path |-> AbsInclude], [step |-> "include", path |-> X]>>
    /\ site.files[IX] = Raw(IX, content[IX])
    /\ Len(outputs) = 2
    /\ site.files[with_extension(A, "html")] = Render(A, content[A])

\* C20: a round of the include loop in which the file system does not fail,
\* on an include that exists under the source root, goes on to the next
\* include and leaves the file, or every file of the directory, under the
\* output root at the same relative path with the same bytes
C20_IncludesAreCopied ==
    [][(pc = "includes" /\ incl <= Len(book.includes) /\ faults' = faults) =>
           LET p == book.includes[incl]
           IN  ~SkippedInclude(p) =>
                   /\ pc' = "includes" /\ incl' = incl + 1
                   /\ \A q \in SrcPaths :
                          (mtime[q] # 0 /\ (q = p \/ (p.stem = "" /\ q.dir = p.dir))) =>
                              site'.files[q] = Raw(q, content[q])]_vars

\* C21: when the assembly has completed, for every success outcome of the
\* walker (text t, source file s) the output directory holds at the path of
\* s, with the extension html, a file with exactly t, in a directory that
\* exists (unless the directory could not be created, which is recorded)
C21_ArtifactsAtMappedPath ==
    Assembled =>
        \A i \in 1..Len(results) :
            results[i].ok =>
                LET src == results[i].src_file
                    dst == [dir |-> src.dir, stem |-> src.stem, ext |-> "html"]
                IN  \/ /\ site.files[dst] = results[i].string
                       /\ dst.dir # "" => dst.dir \in site.dirs
                    \/ \E e \in 1..Len(errors) : errors[e] = [step |-> "mkdir", path |-> dst]

\* the artifact of the summary of the sub-directory is written into the
\* directory that the clearing had removed
C21_Witness ==
    /\ pc = "theme" /\ book = BookSub
    /\ prevSite[with_extension(DS, "html")] # NoFile
    /\ Len(results) = 2 /\ results[2] = BuildOutput(Render(DS, content[DS]), DS)
    /\ site.files[Path("d", "s", "html")] = Render(DS, content[DS])
    /\ "d" \in site.dirs
    /\ errors = <<>>

\* C22: the step that copies the default theme writes a theme file only
\* where the output directory has nothing, and leaves every file that is
\* there, at a path of the theme or elsewhere, with its content
C22_ThemeNeverOverwrites ==
    [][(pc = "theme" /\ pc' = "cache" /\ book.use_default_theme) =>
           /\ \A p \in SitePaths :
                  site'.files[p] = IF p \in ThemeItems /\ site.files[p] = NoFile
                                   THEN ThemeBytesOf(p) ELSE site.files[p]
           /\ site'.dirs = site.dirs \cup {"theme"}]_vars

\* the theme is copied over an included file of the user at a path of the
\* theme: the user's file is kept, the other theme file is created
C22_Witness ==
    /\ pc = "cache" /\ book.use_default_theme
    /\ site.files[ThemeFile] = Raw(ThemeFile, content[ThemeFile])
    /\ site.files[ThemeJs] = ThemeBytesOf(ThemeJs)

\* the lines of the documents by what they are
TitleLine == <<"=", " ", "T", " ">>
DenyLine == <<":", "!", "a", ":", " ", "x">>
SkippedLines == {<<" ">>, <<"/", "/", ":", "a", ":">>}
HbsLine == <<":", "h", "b", "s", ":", " ", "t">>
EntryLines ==
    {<<":", "a", ":", " ", "v">>, DenyLine, <<":", "b", ":", "{base_url}">>, HbsLine}
\* the attribute an entry line stands for
EntryAttr(line) ==
    CASE line = <<":", "a", ":", " ", "v">> -> allow(<<"a">>, <<"v">>)
      [] line = DenyLine -> deny(<<"a">>)
      [] line = <<":", "b", ":", "{base_url}">> -> allow(<<"b">>, <<"u">>)
      [] line = HbsLine -> allow(HBS, <<"t">>)
AttrNames == {<<"a">>, <<"b">>, <<"c">>, HBS}
Extracted == metadata # <<>>
\* the attributes of the document and of the command line
DocAttrs == metadata[1].attrs
CmdAttrs == metadata[1].base[1].attrs
Named(attrs, name) == {i \in 1..Len(attrs) : attrs[i].name = name}
FirstNamed(attrs, name) ==
    attrs[CHOOSE i \in Named(attrs, name) : \A j \in Named(attrs, name) : i <= j]
\* the attributes given with the first "-a" of book.ron
GivenAttrOpts ==
    IF adoc_opts = <<>> THEN {}
    ELSE LET l == adoc_opts[Len(adoc_opts)][2] IN {l[i] : i \in 1..Len(l)}

\* the lines of the document that are neither blank nor comments
Remaining == SelectSeq(adoc_text, LAMBDA ln : ln \notin SkippedLines)
Titled == Remaining # <<>> /\ Head(Remaining) = TitleLine
RECURSIVE HeaderEntries(_)
\* the entries of a header: the lines up to the first line that is no entry
HeaderEntries(lines) ==
    IF lines = <<>> \/ Head(lines) \notin EntryLines THEN <<>>
    ELSE <<Head(lines)>> \o HeaderEntries(Tail(lines))

Header == HeaderEntries(IF Titled THEN Tail(Remaining) ELSE Remaining)

\* C23: find_attr returns the attribute of the document when the document
\* sets or unsets the name, and only otherwise the attribute of that name
\* of the "-a" options; ":!a:" of the document wins over "a" of the command
\* line, and "b=v" given on the command line only is found with its value
C23_DocumentWinsOverCmdLine ==
    Extracted =>
        /\ \A name \in AttrNames :
               find_attr(metadata[1], name) =
                   IF Named(DocAttrs, name) # {} THEN <<FirstNamed(DocAttrs, name)>>
                   ELSE IF Named(CmdAttrs, name) # {} THEN <<FirstNamed(CmdAttrs, name)>>
                   ELSE <<>>
        /\ (/\ Header # <<>> /\ \A i \in 1..Len(Header) : Header[i] = DenyLine
            /\ <<"a">> \in GivenAttrOpts)
               => find_attr(metadata[1], <<"a">>) = <<deny(<<"a">>)>>
        /\ (/\ \A i \in 1..Len(adoc_text) : adoc_text[i] # <<":", "b", ":", "{base_url}">>
            /\ GivenAttrOpts = {<<"a">>, <<"b", "=", "v">>})
               => find_attr(metadata[1], <<"b">>) = <<allow(<<"b">>, <<"v">>)>>

\* the document of the test: a title, ":!a:" with text after it, and "-a"
\* with "a" and "b=v"
C23_Witness ==
    /\ Extracted
    /\ adoc_text = <<TitleLine, <<" ">>, DenyLine>>
    /\ adoc_opts = <<<<"-a", <<<<"a">>, <<"b", "=", "v">>>>>>>>
    /\ find_attr(metadata[1], <<"a">>) = <<deny(<<"a">>)>>
    /\ find_attr(metadata[1], <<"b">>) = <<allow(<<"b">>, <<"v">>)>>

\* C24: extract ignores blank lines and comments, takes the title from the
\* first line left when it starts with "= ", and returns as attributes the
\* entries of the header in their order, ":!name:" as a deny entry without
\* its text; no line after the first body line gives an attribute
C24_ExtractReadsHeaderOnly ==
    Extracted =>
        /\ metadata[1].title = IF Titled THEN <<<<"T">>>> ELSE <<>>
        /\ DocAttrs = [i \in 1..Len(Header) |-> EntryAttr(Header[i])]

\* the book that BookStructure::from_dir makes of the loaded index
LoadedBook == [book EXCEPT !.index = loadRes.index]
\* the files of one child: the file, or the summary of the sub-directory and
\* then its children
ItemFiles(item) ==
    IF item.kind = "File" THEN <<item.path>>
    ELSE <<item.index.summary>>
         \o [i \in 1..Len(item.index.items) |-> item.index.items[i].path]
RECURSIVE Offset(_, _)
\* the number of files before those of the k-th child
Offset(items, k) ==
    IF k = 1 THEN 1 ELSE Offset(items, k - 1) + Len(ItemFiles(items[k - 1]))
\* list is the traversal of ix in depth: the summary, then child by child
Traversed(list, ix) ==
    /\ Len(list) = Offset(ix.items, Len(ix.items) + 1)
    /\ list[1] = ix.summary
    /\ \A k \in 1..Len(ix.items) :
           SubSeq(list, Offset(ix.items, k) + 1, Offset(ix.items, k + 1))
               = ItemFiles(ix.items[k])

\* C26: the flattened list of the walker is the traversal of the tree in
\* depth (summary first, children in declaration order, a sub-directory
\* whole before its next sibling) followed by the convert-only files
C26_TreeThenConverts ==
    Loaded =>
        LET list == list_src_files(LoadedBook)
            n == Len(list) - Len(book.converts)
        IN  /\ n >= 1
            /\ Traversed(SubSeq(list, 1, n), loadRes.index)
            /\ SubSeq(list, n + 1, Len(list)) = book.converts

\* C25: a build with --force is a build without a previous snapshot: the
\* index in memory is empty whatever the index file holds, need_build is true
\* for every file of the flattened list, and the index file is not read, so
\* the build cannot fail at loading it
C25_ForcedIsFirstBuild ==
    /\ (Running /\ force /\ pc \notin {"validate", "load"}) => loaded = <<>>
    /\ (Diffed /\ force) =>
           /\ cache_diff.old = None
           /\ \A i \in 1..Len(Files) : need_build(cache_diff, Files[i])
    /\ (force /\ lastResult = "err") => failedAt # "load"

\* a forced build over an index file that records every file of the list
\* with the modification time it has
C25_Witness ==
    /\ pc = "units" /\ force
    /\ indexFile.kind = "data" /\ startIndex = indexFile
    /\ \A i \in 1..Len(Files) :
           ~need_build(create_diff(indexFile.entries, mtime), Files[i])
    /\ Len(tasks) = Len(Files)

\* the positions of the flattened list whose file needs a build
RenderSet == {i \in 1..Len(Files) : need_build(cache_diff, Files[i])}
\* walk_book_async has returned
Walked == Running /\ pc \notin {"validate", "load", "diff", "which", "walk", "units"}

\* C27: only the files of the render set are dispatched as units: the units
\* and the total of the progress bar are as many as the render set, and no
\* unit reads a file of the reuse set from the artifact mirror
C27_OnlyRenderSetDispatched ==
    pc = "units" =>
        /\ Len(tasks) = Cardinality(RenderSet)
        /\ pb.len = Cardinality(RenderSet)
        /\ \A t \in 1..Len(tasks) : need_build(cache_diff, tasks[t].src)

\* C28: the list the walker returns holds exactly one outcome for every file
\* of the flattened list, of the reuse set as of the render set
C28_OneOutcomePerFile ==
    Walked =>
        /\ Len(results) = Len(Files)
        /\ \A i \in 1..Len(Files) : results[i].src_file = Files[i]

\* utils::visit_files_rec: the paths under the source root that are files,
\* the paths create_new_cache makes an entry for
visit_files_rec(fs) == {path \in DOMAIN fs : is_file(fs, path)}
\* need_build: .unwrap_or_else(|| panic!("given non-existing file in source directory"))
NeedBuildPanics(fs, path) == path \notin visit_files_rec(fs)

\* C29: every file of the flattened list of a loaded book, each convert-only
\* file among them, has an entry in the snapshot the build takes of the
\* source root, so need_build does not panic
C29_ListedFilesInSnapshot ==
    Loaded =>
        LET list == list_src_files(LoadedBook)
        IN  \A i \in 1..Len(list) : ~NeedBuildPanics(lfs, list[i])

\* the positions of the list whose file was rendered by the running build
\* and failed
FailedRenders ==
    {i \in 1..Len(results) : ~results[i].ok /\ need_build(cache_diff, results[i].src_file)}

\* C30: a build that returns Ok after the render of a file failed saves an
\* index that does not advance the entry of that file: for the next build,
\* with the file unchanged, need_build is true for it
C30_FailedFileIsRetried ==
    [][(pc = "save" /\ lastResult' = "ok") =>
           \A i \in FailedRenders :
               need_build(create_diff(indexFile'.entries, mtime'), results[i].src_file)]_vars

\* the declared entries that fail to load: those of the root description,
\* and those of the description of the sub-directory when it is loaded
FailingItems ==
    Cardinality({i \in 1..Len(ix_ron.items) : ~ValidEntry(ix_ron.items[i])})
    + (IF \E i \in 1..Len(ix_ron.items) :
              ix_ron.items[i].kind = "Dir" /\ ValidEntry(ix_ron.items[i])
       THEN Cardinality({j \in 1..Len(sub_ron.items) : ~ValidSubEntry(sub_ron.items[j])})
       ELSE 0)

\* C31: the error list of a loaded tree is flat: one entry per failing item
\* of the whole tree, each naming its own path, and no entry that wraps the
\* errors of a sub-tree
C31_ErrorsAreFlat ==
    Loaded =>
        /\ Len(loadRes.errors) = FailingItems
        /\ \A k \in 1..Len(loadRes.errors) :
               /\ loadRes.errors[k].err # "FoundErrorsInSubIndex"
               /\ loadRes.errors[k].sub = <<>>
        /\ \A j \in 1..Len(sub_ron.items) :
               (/\ \E i \in 1..Len(ix_ron.items) :
                       ix_ron.items[i].kind = "Dir" /\ ValidEntry(ix_ron.items[i])
                /\ ~ValidSubEntry(sub_ron.items[j]))
                   => \E k \in 1..Len(loadRes.errors) :
                          loadRes.errors[k] = FailedToLocateItem(sub_ron.items[j].rel, <<"d">>)

\* C32: a build that returns Ok leaves every artifact it rendered afresh in
\* the cache directory, at the relative path of the file with the extension
\* html and with the rendered text
C32_RenderedIsMirrored ==
    [][(pc = "save" /\ lastResult' = "ok") =>
           \A i \in 1..Len(outputs) :
               need_build(cache_diff, outputs[i].src_file) =>
                   mirror'.files[with_extension(outputs[i].src_file, "html")]
                       = outputs[i].string]_vars

\* what the unit of file p can return by itself: the artifact of the cache
\* directory, or what its own run of the engine gave
UnitOutcomes(p) ==
    IF can_skip_build(cache_diff, p) THEN {ReadCached(mirror, p)}
    ELSE {BuildOutput(Render(p, content[p]), p), BuildError(p)}

C34_NoDirectoryTwiceOnPath ==
    \A i, j \in 1..Len(stack) : stack[i].dir = stack[j].dir => i = j

\* C35: while one file is converted the template engine runs at most once,
\* and only for a document whose own text names a template with an attribute
\* hbs
C35_TemplateOnlyByDocument ==
    /\ conv.hbs <= 1
    /\ conv.hbs = 1 => \E i \in 1..Len(adoc_text) : adoc_text[i] = HbsLine

\* C36: between builds the index and the mirror agree: every listed file
\* for which need_build is false under the saved index has an artifact in the
\* cache directory
C36_IndexAndMirrorInSync ==
    (pc = "idle" /\ indexFile.kind = "data") =>
        \A i \in 1..Len(Files) :
            ~need_build(create_diff(indexFile.entries, mtime), Files[i]) =>
                mirror.files[with_extension(Files[i], "html")] # NoFile

\* C37: the units of one build have pairwise distinct source files, hence
\* pairwise distinct destination paths: no file is in the flattened list twice
C37_UnitsHaveDistinctFiles ==
    \A t, u \in 1..Len(tasks) :
        with_extension(tasks[t].src, "html") = with_extension(tasks[u].src, "html")
            => t = u

\* C38: the walker terminates: once the units are spawned, every unit
\* takes the mutex of the progress bar, increments and releases it, and the
\* join returns with the mutex free
C38_WalkerTerminates ==
    /\ \A t \in Units :
           (pc = "units" /\ t \in 1..Len(tasks))
               ~> (pc = "units" /\ t \in 1..Len(tasks) /\ tasks[t].st = "done")
    /\ (pc = "units") ~> (pc = "collect" /\ pb.lock = 0 /\ pb.pos = pb.len)

\* the join has returned after three units ran
C38_Witness ==
    /\ pc = "collect"
    /\ Len(results) = 3
    /\ pb.lock = 0
    /\ pb.pos = 3

\* whether the include p covers the path q
Includes(p, q) == q = p \/ (p.stem = "" /\ q.dir = p.dir)

\* C39: when a build returns Ok, every entry of the output directory outside
\* the top-level names that start with '.' comes from that build: it is a
\* copied include, the artifact of a success outcome of the build, or a file
\* of the default theme
C39_SiteIsOfThisBuild ==
    [][(pc = "save" /\ lastResult' = "ok") =>
           \A q \in SitePaths :
               (TopName(q) \notin DotNames /\ site'.files[q] # NoFile) =>
                   \/ /\ q \in SrcPaths
                      /\ site'.files[q] = Raw(q, content[q])
                      /\ \E i \in 1..Len(book.includes) :
                             ~SkippedInclude(book.includes[i]) /\ Includes(book.includes[i], q)
                   \/ \E i \in 1..Len(results) :
                          /\ results[i].ok
                          /\ q = with_extension(results[i].src_file, "html")
                          /\ site'.files[q] = results[i].string
                   \/ /\ book.use_default_theme
                      /\ q \in ThemeItems
                      /\ site'.files[q] = ThemeBytesOf(q)]_vars

\* the time of file p in a snapshot, 0 when the snapshot has no entry of it
TimeIn(entries, p) ==
    IF find_cache(entries, p).some THEN find_cache(entries, p).entries[1].last_modified ELSE 0

\* C40: the snapshot is captured when the diff is created and stays as it is
\* while the build runs; a build that returns Ok persists that snapshot, so
\* for every listed file whose modification time has changed since the
\* capture the saved entry holds the earlier time and need_build is true at
\* the next build
C40_SnapshotIsTheOneCaptured ==
    [][/\ (pc = "diff" /\ pc' = "which") => cache_diff'.new = create_new_cache(mtime)
       /\ (pc \notin {"idle", "diff"} /\ pc' # "idle") => cache_diff' = cache_diff
       /\ (pc = "save" /\ lastResult' = "ok") =>
              /\ indexFile'.kind = "data"
              /\ indexFile'.entries = cache_diff.new
              /\ \A i \in 1..Len(Files) :
                     mtime'[Files[i]] # TimeIn(cache_diff.new, Files[i]) =>
                         /\ TimeIn(indexFile'.entries, Files[i]) = TimeIn(cache_diff.new, Files[i])
                         /\ need_build(create_diff(indexFile'.entries, mtime'), Files[i])]_vars

\* a build has returned Ok and saved its index, and a listed file that
\* changed while the build ran has the earlier time in the saved index
C40_Witness ==
    /\ Finished("ok")
    /\ indexFile.kind = "data"
    /\ changes > 0
    /\ \E i \in 1..Len(Files) :
           /\ find_cache(indexFile.entries, Files[i]).some
           /\ TimeIn(indexFile.entries, Files[i]) # mtime[Files[i]]
           /\ need_build(create_diff(indexFile.entries, mtime), Files[i])

====
